---- MODULE Spec2Model ----
(***************************************************************************)
(* Model of the snaglet API server (packages/snaglet-server/server.js) and *)
(* of the one-shot bootstrap-admin script, together with the part of the   *)
(* identity provider they talk to (accounts, custom-claim store, issued    *)
(* ID tokens).                                                             *)
(*                                                                         *)
(* Encoding of JavaScript values:                                          *)
(*   - a string is a sequence of one-character strings where the code      *)
(*     inspects its characters (the Authorization header, the ID token),   *)
(*     and a TLA+ string where the code only passes it around (emails,     *)
(*     messages);                                                          *)
(*   - an object is a set of <<key, value>> pairs with distinct keys;      *)
(*   - a claim value is written as its JS literal: "true" is the boolean   *)
(*     true, "false" the boolean false, "'pro'" the string 'pro';          *)
(*   - "undefined" is the JS value undefined;                              *)
(*   - a value that may be missing (req.user, the header, the response)    *)
(*     is a sequence of length 0 or 1;                                     *)
(*   - a response is a record of its status and of its body: a JSON        *)
(*     object, a JSON array or a file, the two that were not sent empty.   *)
(***************************************************************************)
EXTENDS Naturals, Integers, Sequences, FiniteSets, TLC

VARIABLES
    accounts,   \* the provider's accounts (uids)
    store,      \* the provider's custom claims of each uid
    issued,     \* the ID tokens the provider has minted, decoded
    req,        \* the requests in flight on the server
    script,     \* the bootstrap-admin script
    NODE_ENV    \* process.env.NODE_ENV of the server process

vars == <<accounts, store, issued, req, script, NODE_ENV>>

(* ------------------------------ bounds -------------------------------- *)
\* number of ID tokens the provider issues in one behaviour
MaxTokens == 3

(* ----------------------------- universe ------------------------------- *)
\* the requests that can be in flight at the same time
Reqs == {1, 2}

Users == {"u1", "u2"}

EmailOf == [u \in Users |-> IF u = "u1" THEN "graciegould5@gmail.com" ELSE "bob@example.com"]

UnknownEmail == "nobody@example.com"

\* the address hard-wired in the bootstrap script
emailToMakeAdmin == "graciegould5@gmail.com"

\* custom claims an account may carry before this program ever touches it
InitialClaims == { {}, {<<"plan", "'pro'">>} }

Digit == <<"1", "2", "3", "4", "5", "6", "7", "8", "9">>

\* the n-th ID token string handed out by the provider
TokenString(n) == <<"t", Digit[n]>>

\* a syntactically fine token string the provider never issued
ForgedToken == <<"x">>

(* ------------------------- JavaScript helpers ------------------------- *)
\* obj[key]
Get(obj, key) ==
    IF \E p \in obj : p[1] = key
    THEN (CHOOSE p \in obj : p[1] = key)[2]
    ELSE "undefined"

\* !v for the values a JSON body field takes here
Falsy(v) == v \in {"undefined", "", "false", "null", "0"}

\* s.startsWith(p)
startsWith(s, p) == Len(s) >= Len(p) /\ SubSeq(s, 1, Len(p)) = p

\* s.indexOf(sep) counted from 1, 0 when sep does not occur
indexOf(s, sep) ==
    LET hits == {i \in 1..(Len(s) + 1 - Len(sep)) : SubSeq(s, i, i + Len(sep) - 1) = sep}
    IN IF Len(s) < Len(sep) \/ hits = {} THEN 0
       ELSE CHOOSE i \in hits : \A j \in hits : i <= j

RECURSIVE split(_, _)
\* s.split(sep) for a non-empty separator
split(s, sep) ==
    LET i == indexOf(s, sep)
    IN IF i = 0 THEN <<s>>
       ELSE <<SubSeq(s, 1, i - 1)>> \o split(SubSeq(s, i + Len(sep), Len(s)), sep)

Bearer == <<"B", "e", "a", "r", "e", "r", " ">>

(* --------------------------- the provider ----------------------------- *)
\* No request is waiting to be dropped.  A request that has been answered is
\* dropped before anything else happens: the answered request stays visible
\* for one state and then leaves.
Quiet == \A i \in Reqs : req[i].pc # "done"

\* the decoded form of the token string tok, <<>> when it was never issued
Decoded(tok) ==
    IF \E d \in issued : d.token = tok
    THEN <<CHOOSE d \in issued : d.token = tok>>
    ELSE <<>>

\* setCustomUserClaims that flips the claims instead of setting them
setCustomUserClaimsToggle(uid, claims) ==
    [store EXCEPT ![uid] = IF store[uid] = claims THEN {} ELSE claims]

\* admin.auth().setCustomUserClaims(uid, claims): the claims object replaces
\* the account's custom claims
setCustomUserClaims(uid, claims) == [store EXCEPT ![uid] = claims]

\* admin.auth().getUserByEmail(email): the account with that address
getUserByEmail(email) == {u \in accounts : EmailOf[u] = email}

\* a person creates an account (Firebase console or the Login component)
SignUp(u) ==
    /\ u \notin accounts
    /\ accounts' = accounts \cup {u}
    /\ UNCHANGED <<store, issued, req, script, NODE_ENV>>

\* a person signs in: the provider mints a new ID token whose payload is the
\* account's custom claims at that moment
SignIn(u) ==
    /\ u \in accounts
    /\ Cardinality(issued) < MaxTokens
    \* a person who holds a token with the current claims does not ask for another
    /\ ~\E d \in issued : d.uid = u /\ d.claims = store[u]
    /\ issued' = issued \cup
         {[token |-> TokenString(Cardinality(issued) + 1), uid |-> u,
           email |-> EmailOf[u], claims |-> store[u]]}
    /\ UNCHANGED <<accounts, store, req, script, NODE_ENV>>

(* ------------------------- the admin console -------------------------- *)
\* handleAuthStateChange: the admin panel is shown for these token claims
handleAuthStateChange(claims) == Get(claims, "isAdmin") = "true"

(* ---------------------------- the server ------------------------------ *)
Routes == {"/api/secure-action", "/api/set-admin-claim"}

\* the values of the Authorization header a client may send
Headers ==
    {<<>>} \cup {<<Bearer \o d.token>> : d \in issued} \cup {<<Bearer \o ForgedToken>>}

\* the JSON bodies a client may send
Bodies ==
    {{}} \cup {{<<"emailToMakeAdmin", e>>} : e \in {EmailOf[u] : u \in Users} \cup {UnknownEmail, ""}}

Idle == [pc |-> "idle", method |-> "", route |-> "", hostname |-> "", parseError |-> "",
         authorization |-> <<>>, body |-> {},
         idToken |-> <<>>, user |-> <<>>, userToUpdate |-> <<>>, snapshot |-> <<>>,
         settled |-> <<>>, before |-> <<>>, res |-> <<>>, trace |-> <<>>, front |-> <<>>,
         log |-> <<>>]

\* res.status(s).json(b) with an object b: the request r answered
Respond(r, s, b) ==
    [r EXCEPT !.pc = "done",
              !.res = Append(r.res, [status |-> s, json |-> b, array |-> <<>>, file |-> <<>>])]

\* res.json(a) with an array a
RespondArray(r, a) ==
    [r EXCEPT !.pc = "done",
              !.res = Append(r.res, [status |-> 200, json |-> {}, array |-> <<a>>, file |-> <<>>])]

\* the file at path below root sent as the response (res.sendFile, express.static, Vite)
SendFile(r, root, path) ==
    [r EXCEPT !.pc = "done",
              !.res = Append(r.res, [status |-> 200, json |-> {}, array |-> <<>>,
                                     file |-> <<root, path>>])]

\* what the request r has done so far, with one more event
Did(r, event) == [r EXCEPT !.trace = Append(r.trace, event)]

\* the provider call of r settled with this outcome
Settled(r, call, outcome) == [r EXCEPT !.settled = Append(r.settled, <<call, outcome>>)]

\* console.error(..., error)
Logged(r, error) == [r EXCEPT !.log = Append(r.log, error)]

\* verifyFirebaseToken without the check of the header
verifyFirebaseTokenNoHeaderCheck(r) ==
    [Did(r, "verifyIdToken") EXCEPT
        !.pc = "verifyIdToken",
        !.idToken = IF r.authorization = <<>> \/ ~startsWith(r.authorization[1], Bearer)
                    THEN <<>>
                    ELSE split(r.authorization[1], Bearer)[2]]

\* verifyFirebaseToken up to its await
verifyFirebaseToken(r) ==
    IF r.authorization = <<>> \/ ~startsWith(r.authorization[1], Bearer)
    THEN Respond(r, 403, {<<"error", "Unauthorized: No token provided">>})
    ELSE [Did(r, "verifyIdToken") EXCEPT
             !.pc = "verifyIdToken",
             !.idToken = split(r.authorization[1], Bearer)[2]]

\* the handler of POST /api/secure-action
SecureAction(r) ==
    Respond(Did(r, "handler:/api/secure-action"), 200,
            {<<"message", <<"Successfully performed secure action for ", r.user[1].email>>>>,
             <<"yourData", r.body>>})

\* the set-admin-claim handler without the check of the email
SetAdminClaimNoEmailCheck(r) ==
    [Did(Did(r, "handler:/api/set-admin-claim"), "getUserByEmail") EXCEPT !.pc = "getUserByEmail"]

\* the handler of POST /api/set-admin-claim up to its first await
SetAdminClaim(r) ==
    IF Falsy(Get(r.body, "emailToMakeAdmin"))
    THEN Respond(Did(r, "handler:/api/set-admin-claim"), 400, {<<"error", "Email is required">>})
    ELSE [Did(Did(r, "handler:/api/set-admin-claim"), "getUserByEmail") EXCEPT
             !.pc = "getUserByEmail"]

\* the admin test with a truthiness check in place of === true
IsAdminUserTruthy(user) == user # <<>> /\ ~Falsy(Get(user[1].claims, "isAdmin"))

\* req.user && req.user.isAdmin === true
IsAdminUser(user) == user # <<>> /\ Get(user[1].claims, "isAdmin") = "true"

\* requireAdmin that lets every authenticated identity through
requireAdminAnyUser(r) ==
    IF r.user # <<>>
    THEN SetAdminClaim(Did(r, "next:requireAdmin"))
    ELSE Respond(r, 403, {<<"error", "Forbidden: Admin privileges required">>})

\* requireAdmin that reads the claim from the provider's store instead of the token
requireAdminFromStore(r) ==
    IF r.user # <<>> /\ Get(store[r.user[1].uid], "isAdmin") = "true"
    THEN SetAdminClaim(Did(r, "next:requireAdmin"))
    ELSE Respond(r, 403, {<<"error", "Forbidden: Admin privileges required">>})

\* requireAdmin that turns the identity away with the message of the other gate
requireAdminSaysUnauthorized(r) ==
    IF IsAdminUser(r.user)
    THEN SetAdminClaim(Did(r, "next:requireAdmin"))
    ELSE Respond(r, 403, {<<"error", "Unauthorized: Invalid token">>})

\* requireAdmin, and through next() the handler behind it
requireAdmin(r) ==
    IF IsAdminUser(r.user)
    THEN SetAdminClaim(Did(r, "next:requireAdmin"))
    ELSE Respond(r, 403, {<<"error", "Forbidden: Admin privileges required">>})

\* a route table in which set-admin-claim was registered without requireAdmin
AfterVerifyNoAdminGate(r) ==
    IF r.route = "/api/set-admin-claim" THEN SetAdminClaim(r) ELSE SecureAction(r)

\* a route table in which secure-action too was registered behind requireAdmin
AfterVerifyAdminOnly(r) ==
    IF r.route = "/api/set-admin-claim" THEN requireAdmin(r)
    ELSE IF IsAdminUser(r.user) THEN SecureAction(Did(r, "next:requireAdmin"))
    ELSE Respond(r, 403, {<<"error", "Forbidden: Admin privileges required">>})

\* next() of verifyFirebaseToken: what the route registered behind it
AfterVerify(r) ==
    IF r.route = "/api/set-admin-claim" THEN requireAdmin(r) ELSE SecureAction(r)

\* verifyFirebaseToken that goes on although the token has expired
verifyFirebaseTokenResumeIgnoreExpiry(r, outcome) ==
    IF outcome \in {"ok", "auth/id-token-expired"}
    THEN AfterVerify(Did([r EXCEPT !.user = Decoded(r.idToken)], "next:verifyFirebaseToken"))
    ELSE Respond(Logged(r, outcome), 403, {<<"error", "Unauthorized: Invalid token">>})

\* verifyFirebaseToken that keeps the identity in one place for all requests:
\* a request gets the identity another request in flight has attached
verifyFirebaseTokenResumeSharedUser(r, outcome) ==
    IF outcome = "ok"
    THEN AfterVerify(Did([r EXCEPT !.user =
                              IF \E j \in Reqs : req[j].user # <<>>
                              THEN req[CHOOSE j \in Reqs : req[j].user # <<>>].user
                              ELSE Decoded(r.idToken)],
                         "next:verifyFirebaseToken"))
    ELSE Respond(Logged(r, outcome), 403, {<<"error", "Unauthorized: Invalid token">>})

\* verifyFirebaseToken from its await on: verifyIdToken returned the decoded
\* token (outcome "ok") or threw
verifyFirebaseTokenResume(r, outcome) ==
    IF outcome = "ok"
    THEN AfterVerify(Did([r EXCEPT !.user = Decoded(r.idToken)], "next:verifyFirebaseToken"))
    ELSE Respond(Logged(r, outcome), 403, {<<"error", "Unauthorized: Invalid token">>})

\* the outcomes admin.auth().verifyIdToken(tok) can have
VerifyOutcomes(tok) ==
    (IF Decoded(tok) # <<>> THEN {"ok", "auth/id-token-expired"} ELSE {"auth/argument-error"})
    \cup {"unavailable"}

\* the outcomes admin.auth().getUserByEmail(email) can have
LookupOutcomes(email) ==
    (IF getUserByEmail(email) # {} THEN {"ok"} ELSE {"auth/user-not-found"}) \cup {"unavailable"}

\* the catch block of the set-admin-claim handler
SetAdminClaimFailure(r, error) ==
    Respond(Logged(r, error), 500, {<<"error", "Failed to set admin claim. User may not exist.">>})

\* the claims object the handler and the script write
AdminClaims == {<<"isAdmin", "true">>}

\* the set-admin-claim handler from the point where getUserByEmail settles
getUserByEmailResume(r, outcome) ==
    IF outcome = "ok"
    THEN [Did(Settled(r, "getUserByEmail", outcome), "setCustomUserClaims") EXCEPT
             !.pc = "setCustomUserClaims",
             !.userToUpdate = <<CHOOSE u \in getUserByEmail(Get(r.body, "emailToMakeAdmin")) : TRUE>>]
    ELSE SetAdminClaimFailure(Settled(r, "getUserByEmail", outcome), outcome)

\* the provider's claim store once the setCustomUserClaims call of r settled
ClaimsWritten(r, outcome) ==
    IF outcome = "ok" THEN setCustomUserClaims(r.userToUpdate[1], AdminClaims) ELSE store

\* the set-admin-claim handler from the point where setCustomUserClaims settles
setCustomUserClaimsResume(r, outcome) ==
    IF outcome = "ok"
    THEN Respond([Settled(r, "setCustomUserClaims", outcome) EXCEPT
                     !.before = <<store[r.userToUpdate[1]]>>], 200,
                 {<<"message", <<"Success! ", Get(r.body, "emailToMakeAdmin"),
                                 " has been made an admin.">>>>})
    ELSE SetAdminClaimFailure(Settled(r, "setCustomUserClaims", outcome), outcome)

\* an error handler that logs the error and sends nothing
ErrorHandlerLogsOnly(r, err) == [Logged(r, err) EXCEPT !.pc = "error"]

\* the error-handling middleware registered last
ErrorHandler(r, err) ==
    Respond(Logged(r, err), 500, {<<"error", "Internal Server Error">>})

\* { ...a, ...b }: the fields of b, and those of a that b does not have
ObjectSpread(a, b) == {p \in a : ~\E q \in b : q[1] = p[1]} \cup b

\* snapshot.docs.map(doc => ({ id: doc.id, ...doc.data() }))
DocsToData(docs) == [k \in 1..Len(docs) |-> ObjectSpread({<<"id", docs[k].id>>}, docs[k].data)]

\* the handler of GET /api/public-data up to its await
PublicData(r) ==
    [Did(Did(r, "handler:/api/public-data"), "public_content.get") EXCEPT !.pc = "public_content.get"]

\* the public-data handler from the point where the read of the collection
\* settles, with the documents docs or with a failure
PublicDataResume(r, outcome, docs) ==
    IF outcome = "ok"
    THEN RespondArray([Settled(r, "public_content.get", outcome) EXCEPT !.snapshot = <<docs>>],
                      DocsToData(docs))
    ELSE Respond(Logged(Settled(r, "public_content.get", outcome), outcome),
                 500, {<<"error", "Failed to fetch data">>})

\* the directory express.static serves for this hostname
StaticRoot(hostname) ==
    IF hostname = "exec.localhost" THEN "packages/snaglet-exec/dist" ELSE "packages/snaglet-app/dist"

\* a catch-all that sends the index.html of the main app to every hostname
IndexRootAlwaysApp(hostname) == "packages/snaglet-app/dist"

\* the directory whose index.html the catch-all sends for this hostname
IndexRoot(hostname) ==
    IF hostname = "exec.localhost" THEN "packages/snaglet-exec/dist" ELSE "packages/snaglet-app/dist"

\* the root of the Vite server that gets the request of this hostname
ViteRoot(hostname) ==
    IF hostname = "exec.localhost" THEN "packages/snaglet-exec" ELSE "packages/snaglet-app"

\* the frontend serving logic handed the request to this stage with this root
Served(r, stage, root) == [r EXCEPT !.front = Append(r.front, <<stage, root>>)]

\* app.get('*'): the catch-all of the single-page applications; a request
\* that is not a GET finds no route and gets the framework's 404
SpaFallback(r) ==
    IF r.method = "GET"
    THEN SendFile(Served(r, "sendFile", IndexRoot(r.hostname)), IndexRoot(r.hostname), "/index.html")
    ELSE Respond(r, 404, {})

\* the frontend serving logic up to its first await: in production
\* express.static looks for the file (it passes on at once what is not a
\* GET), in development the Vite server of the hostname answers
FrontEnd(r) ==
    IF NODE_ENV = "production"
    THEN IF r.method = "GET"
         THEN [Served(r, "static", StaticRoot(r.hostname)) EXCEPT !.pc = "static"]
         ELSE SpaFallback(Served(r, "static", StaticRoot(r.hostname)))
    ELSE SendFile(Served(r, "vite", ViteRoot(r.hostname)), ViteRoot(r.hostname), r.route)

\* a middleware stack that looks at the hostname before the API routes
DispatchHostFirst(r) ==
    IF r.parseError # "" THEN ErrorHandler(r, r.parseError)
    ELSE IF r.hostname = "exec.localhost" THEN FrontEnd(r)
    ELSE IF r.method = "GET" /\ r.route = "/api/public-data" THEN PublicData(r)
    ELSE IF r.method = "POST" /\ r.route \in Routes THEN verifyFirebaseToken(r)
    ELSE FrontEnd(r)

\* the middleware stack in the order of registration: express.json (a body
\* it cannot parse goes to the error handler), the API routes, the frontend
Dispatch(r) ==
    IF r.parseError # "" THEN ErrorHandler(r, r.parseError)
    ELSE IF r.method = "GET" /\ r.route = "/api/public-data" THEN PublicData(r)
    ELSE IF r.method = "POST" /\ r.route \in Routes THEN verifyFirebaseToken(r)
    ELSE FrontEnd(r)

\* a POST to an API route from the public hostname with a body that parses
Post(route, header, body) ==
    [method |-> "POST", route |-> route, hostname |-> "localhost", parseError |-> "",
     authorization |-> header, body |-> body]

\* a request q arrives and runs through the middleware stack up to the first
\* await
Request(i, q) ==
    /\ req[i].pc = "idle"
    \* which free slot holds the request does not matter: take the first
    /\ \A j \in Reqs : j < i => req[j].pc # "idle"
    /\ req' = [req EXCEPT ![i] = Dispatch(
                  [Idle EXCEPT !.method = q.method, !.route = q.route, !.hostname = q.hostname,
                               !.parseError = q.parseError, !.authorization = q.authorization,
                               !.body = q.body])]
    /\ UNCHANGED <<accounts, store, issued, script, NODE_ENV>>

\* verifyIdToken settles: verifyFirebaseToken resumes and, when it calls
\* next(), the rest of the chain runs up to the next await
verifyIdTokenSettles(i, outcome) ==
    LET r == req[i] IN
    /\ r.pc = "verifyIdToken"
    /\ outcome \in VerifyOutcomes(r.idToken)
    /\ req' = [req EXCEPT ![i] = verifyFirebaseTokenResume(Settled(r, "verifyIdToken", outcome), outcome)]
    /\ UNCHANGED <<accounts, store, issued, script, NODE_ENV>>

\* getUserByEmail settles: the set-admin-claim handler resumes
getUserByEmailSettles(i, outcome) ==
    LET r == req[i]
        email == Get(r.body, "emailToMakeAdmin") IN
    /\ r.pc = "getUserByEmail"
    /\ outcome \in LookupOutcomes(email)
    /\ req' = [req EXCEPT ![i] = getUserByEmailResume(r, outcome)]
    /\ UNCHANGED <<accounts, store, issued, script, NODE_ENV>>

\* setCustomUserClaims settles: the set-admin-claim handler resumes
setCustomUserClaimsSettles(i, outcome) ==
    LET r == req[i] IN
    /\ r.pc = "setCustomUserClaims"
    /\ outcome \in {"ok", "unavailable"}
    /\ store' = ClaimsWritten(r, outcome)
    /\ req' = [req EXCEPT ![i] = setCustomUserClaimsResume(r, outcome)]
    /\ UNCHANGED <<accounts, issued, script, NODE_ENV>>

\* db.collection('public_content').get() settles with the documents docs or
\* fails: the public-data handler resumes
PublicDataSettles(i, outcome, docs) ==
    LET r == req[i] IN
    /\ r.pc = "public_content.get"
    /\ req' = [req EXCEPT ![i] = PublicDataResume(r, outcome, docs)]
    /\ UNCHANGED <<accounts, store, issued, script, NODE_ENV>>

\* express.static found the file (hit) or not (miss: it calls next())
StaticSettles(i, outcome) ==
    LET r == req[i] IN
    /\ r.pc = "static"
    /\ IF outcome = "hit"
       THEN req' = [req EXCEPT ![i] = SendFile(Settled(r, "static", outcome), StaticRoot(r.hostname), r.route)]
       ELSE req' = [req EXCEPT ![i] = SpaFallback(Settled(r, "static", outcome))]
    /\ UNCHANGED <<accounts, store, issued, script, NODE_ENV>>

\* the response has been sent: the request object is dropped
Finish(i) ==
    /\ req[i].pc = "done"
    /\ req' = [req EXCEPT ![i] = Idle]
    /\ UNCHANGED <<accounts, store, issued, script, NODE_ENV>>

(* ---------------------- the bootstrap-admin script -------------------- *)
\* setAdminClaim() up to its first await
ScriptStart ==
    /\ script.pc = "start"
    /\ script' = [script EXCEPT !.pc = "getUserByEmail"]
    /\ UNCHANGED <<accounts, store, issued, req, NODE_ENV>>

\* setAdminClaim() from the point where getUserByEmail settles
ScriptLookupSettles(outcome) ==
    /\ script.pc = "getUserByEmail"
    /\ outcome \in LookupOutcomes(emailToMakeAdmin)
    /\ IF outcome = "ok"
       THEN script' = [script EXCEPT !.pc = "setCustomUserClaims",
                                     !.user = <<CHOOSE u \in getUserByEmail(emailToMakeAdmin) : TRUE>>]
       ELSE script' = [script EXCEPT !.pc = "exit", !.code = 1, !.log = outcome]
    /\ UNCHANGED <<accounts, store, issued, req, NODE_ENV>>

\* setAdminClaim() from the point where setCustomUserClaims settles
ScriptSetSettles(outcome) ==
    /\ script.pc = "setCustomUserClaims"
    /\ outcome \in {"ok", "unavailable"}
    /\ IF outcome = "ok"
       THEN /\ store' = setCustomUserClaims(script.user[1], AdminClaims)
            /\ script' = [script EXCEPT !.pc = "exit", !.code = 0]
       ELSE /\ store' = store
            /\ script' = [script EXCEPT !.pc = "exit", !.code = 1, !.log = outcome]
    /\ UNCHANGED <<accounts, issued, req, NODE_ENV>>

(* --------------------------- specification ---------------------------- *)
Init ==
    /\ accounts = {"u2"}
    /\ \E c \in InitialClaims : store = [u \in Users |-> IF u = "u2" THEN c ELSE {}]
    /\ issued = {}
    /\ req = [i \in Reqs |-> Idle]
    /\ script = [pc |-> "start", user |-> <<>>, code |-> 0, log |-> ""]
    /\ NODE_ENV = "production"

Next ==
    \/ Quiet /\ \E u \in Users : SignUp(u)
    \/ Quiet /\ \E u \in Users : SignIn(u)
    \/ Quiet /\ \E i \in Reqs, route \in Routes, header \in Headers, body \in Bodies :
          Request(i, Post(route, header, body))
    \/ Quiet /\ \E i \in Reqs, o \in {"ok", "auth/id-token-expired", "auth/argument-error", "unavailable"} :
          verifyIdTokenSettles(i, o)
    \/ Quiet /\ \E i \in Reqs, o \in {"ok", "auth/user-not-found", "unavailable"} :
          getUserByEmailSettles(i, o)
    \/ Quiet /\ \E i \in Reqs, o \in {"ok", "unavailable"} : setCustomUserClaimsSettles(i, o)
    \/ \E i \in Reqs : Finish(i)
    \/ Quiet /\ ScriptStart
    \/ Quiet /\ \E o \in {"ok", "auth/user-not-found", "unavailable"} : ScriptLookupSettles(o)
    \/ Quiet /\ \E o \in {"ok", "unavailable"} : ScriptSetSettles(o)

Spec == Init /\ [][Next]_vars

(* ------------- one request at a time, every kind of input ------------- *)
\* the values req.hostname takes
Hostnames == {"exec.localhost", "localhost", "www.exec.localhost"}

\* custom claims an account may have been given by other tools
WideInitialClaims ==
    InitialClaims \cup
    { {<<"isAdmin", "false">>}, {<<"isAdmin", "'true'">>}, {<<"isAdmin", "1">>},
      {<<"role", "'admin'">>} }

Basic == <<"B", "a", "s", "i", "c", " ">>

\* Authorization headers of every shape: none, another scheme, the bare word
\* 'Bearer', 'Bearer ' with nothing behind it, 'Bearer ' with a token, and
\* 'Bearer ' with a token string that itself contains 'Bearer '
WideHeaders ==
    Headers
    \cup {<<Basic \o d.token>> : d \in issued}
    \cup {<<SubSeq(Bearer, 1, 6)>>, <<Bearer>>}
    \cup {<<Bearer \o d.token \o Bearer \o ForgedToken>> : d \in issued}

WideBodies == { {}, {<<"emailToMakeAdmin", EmailOf["u2"]>>}, {<<"emailToMakeAdmin", UnknownEmail>>} }

\* the documents the collection public_content may hold
Documents ==
    { [id |-> "'d1'", data |-> {<<"title", "'a'">>}],
      [id |-> "'d2'", data |-> {}],
      [id |-> "'d3'", data |-> {<<"id", "'other'">>, <<"title", "'b'">>}] }

\* what db.collection('public_content').get() may return
Snapshots ==
    {<<>>} \cup {<<d>> : d \in Documents}
           \cup {<<p[1], p[2]>> : p \in {q \in Documents \X Documents : q[1] # q[2]}}

\* the requests a client may send
WideRequests ==
    [method : {"POST"}, route : Routes, hostname : Hostnames, parseError : {""},
     authorization : WideHeaders, body : WideBodies]
    \cup
    [method : {"GET"}, route : {"/api/public-data", "/api/secure-action", "/dashboard"},
     hostname : Hostnames, parseError : {""}, authorization : {<<>>}, body : {{}}]
    \cup
    [method : {"POST"}, route : {"/dashboard"},
     hostname : Hostnames, parseError : {""}, authorization : {<<>>}, body : {{}}]
    \cup
    [method : {"POST"}, route : {"/api/set-admin-claim", "/dashboard"},
     hostname : {"exec.localhost", "localhost"}, parseError : {"entity.parse.failed"},
     authorization : Headers, body : {{}}]

\* the script has made its address an admin; the other account carries any
\* claims; the server runs in either mode
WideInit ==
    /\ accounts = Users
    /\ \E c \in WideInitialClaims : store = [u \in Users |-> IF u = "u2" THEN c ELSE AdminClaims]
    /\ issued = {}
    /\ req = [i \in Reqs |-> Idle]
    /\ script = [pc |-> "exit", user |-> <<"u1">>, code |-> 0, log |-> ""]
    /\ NODE_ENV \in {"production", "development"}

WideNext ==
    \/ Quiet /\ \E u \in Users : SignIn(u)
    \/ Quiet /\ \E q \in WideRequests : Request(1, q)
    \/ Quiet /\ \E o \in {"ok", "auth/id-token-expired", "auth/argument-error", "unavailable"} :
          verifyIdTokenSettles(1, o)
    \/ Quiet /\ \E o \in {"ok", "auth/user-not-found", "unavailable"} : getUserByEmailSettles(1, o)
    \/ Quiet /\ \E o \in {"ok", "unavailable"} : setCustomUserClaimsSettles(1, o)
    \/ Quiet /\ \E o \in {"ok", "unavailable"}, docs \in Snapshots : PublicDataSettles(1, o, docs)
    \/ Quiet /\ \E o \in {"hit", "miss"} : StaticSettles(1, o)
    \/ Finish(1)

WideSpec == WideInit /\ [][WideNext]_vars

\* every call the server waits for returns or fails, and a sent response
\* leaves the server
Settles ==
    \/ \E o \in {"ok", "auth/id-token-expired", "auth/argument-error", "unavailable"} :
          verifyIdTokenSettles(1, o)
    \/ \E o \in {"ok", "auth/user-not-found", "unavailable"} : getUserByEmailSettles(1, o)
    \/ \E o \in {"ok", "unavailable"} : setCustomUserClaimsSettles(1, o)
    \/ \E o \in {"ok", "unavailable"}, docs \in Snapshots : PublicDataSettles(1, o, docs)
    \/ \E o \in {"hit", "miss"} : StaticSettles(1, o)
    \/ Finish(1)

FairSpec == WideSpec /\ WF_vars(Settles)

(* ------------------------------ properties ---------------------------- *)
\* the event e occurs in the trace t
Has(t, e) == \E k \in 1..Len(t) : t[k] = e

\* the place of the first occurrence of e in t
Pos(t, e) == CHOOSE k \in 1..Len(t) : t[k] = e /\ \A j \in 1..(k - 1) : t[j] # e

\* the uid u has the admin claim in the provider's store
StoredAdmin(u) == Get(store[u], "isAdmin") = "true"

\* the identity (if any) carries the claim isAdmin with the boolean true
CarriesAdmin(user) == user # <<>> /\ <<"isAdmin", "true">> \in user[1].claims

\* the request slot i has been answered with status s and error text e
Answered(i, s, e) ==
    /\ req[i].pc = "done"
    /\ Len(req[i].res) = 1
    /\ req[i].res[1].status = s
    /\ Get(req[i].res[1].json, "error") = e

\* the request slot i has been answered 200
Succeeded(i) ==
    /\ req[i].pc = "done"
    /\ Len(req[i].res) = 1
    /\ req[i].res[1].status = 200

\* the step is the set-admin-claim handler of slot i writing the claims of u
GrantStep(i, u) ==
    /\ req[i].pc = "setCustomUserClaims"
    /\ req[i].route = "/api/set-admin-claim"
    /\ req[i].userToUpdate = <<u>>
    /\ req'[i].pc = "done"
    /\ req'[i].settled[Len(req'[i].settled)] = <<"setCustomUserClaims", "ok">>

\* C1: the admin claim of an identity becomes true in the provider's store
\* only in a step of the set-admin-claim handler of a request whose verified
\* identity carries isAdmin === true (the bootstrap script, which is not an
\* HTTP request, aside); and as long as the script has not granted anyone,
\* nobody is admin, whatever requests were sent.
C1_OnlyAdminGrants ==
    /\ [][\A u \in Users :
            (StoredAdmin(u)' /\ ~StoredAdmin(u)) =>
               \/ script' # script
               \/ \E i \in Reqs : GrantStep(i, u) /\ CarriesAdmin(req[i].user)]_vars
    /\ []((script.pc # "exit" \/ script.code # 0) => \A u \in Users : ~StoredAdmin(u))

\* an admin has granted the admin claim to another identity
C1_Witness ==
    \E i \in Reqs :
        /\ Succeeded(i)
        /\ req[i].route = "/api/set-admin-claim"
        /\ req[i].userToUpdate = <<"u2">>
        /\ req[i].user[1].uid = "u1"
        /\ req[i].before # <<AdminClaims>>
        /\ StoredAdmin("u2")

\* C2: a handler body has run only in a request in which every gate in front
\* of it passed before, in order: verifyFirebaseToken (identity attached) for
\* /api/secure-action, verifyFirebaseToken and then requireAdmin for
\* /api/set-admin-claim.
C2_HandlerBehindGates ==
    \A i \in Reqs :
        LET t == req[i].trace IN
        /\ Has(t, "handler:/api/secure-action") =>
              /\ req[i].route = "/api/secure-action"
              /\ req[i].user # <<>>
              /\ Has(t, "next:verifyFirebaseToken")
              /\ Pos(t, "next:verifyFirebaseToken") < Pos(t, "handler:/api/secure-action")
        /\ Has(t, "handler:/api/set-admin-claim") =>
              /\ req[i].route = "/api/set-admin-claim"
              /\ req[i].user # <<>>
              /\ Has(t, "next:verifyFirebaseToken")
              /\ Has(t, "next:requireAdmin")
              /\ Pos(t, "next:verifyFirebaseToken") < Pos(t, "next:requireAdmin")
              /\ Pos(t, "next:requireAdmin") < Pos(t, "handler:/api/set-admin-claim")

\* the set-admin-claim handler has run behind both gates
C2_Witness ==
    \E i \in Reqs :
        /\ req[i].trace = <<"verifyIdToken", "next:verifyFirebaseToken", "next:requireAdmin",
                            "handler:/api/set-admin-claim", "getUserByEmail">>
        /\ req[i].pc = "getUserByEmail"

VerifyFailed(i) ==
    /\ req[i].settled # <<>>
    /\ req[i].settled[1][1] = "verifyIdToken"
    /\ req[i].settled[1][2] # "ok"

\* C4: a request with a 'Bearer <token>' header whose verification fails
\* (bad token or failing provider call) is answered 403 unauthorized, has no
\* identity attached, and no handler body, provider lookup or claim write
\* happens in it.
C4_VerifyFails ==
    \A i \in Reqs :
        VerifyFailed(i) =>
            /\ startsWith(req[i].authorization[1], Bearer)
            /\ Answered(i, 403, "Unauthorized: Invalid token")
            /\ req[i].user = <<>>
            /\ req[i].trace = <<"verifyIdToken">>
            /\ req[i].settled = <<req[i].settled[1]>>
            /\ req[i].before = <<>>

\* the provider refused a token that it had issued to an admin
C4_Witness ==
    \E i \in Reqs :
        /\ VerifyFailed(i)
        /\ req[i].settled[1][2] = "auth/id-token-expired"
        /\ req[i].route = "/api/set-admin-claim"
        /\ CarriesAdmin(Decoded(req[i].idToken))

\* the request slot i holds a set-admin-claim request whose token verified
VerifiedGrantRequest(i) ==
    /\ req[i].route = "/api/set-admin-claim"
    /\ req[i].settled # <<>>
    /\ req[i].settled[1] = <<"verifyIdToken", "ok">>

\* C5: a set-admin-claim request whose token verifies to an identity without
\* isAdmin === true is answered 403 'Forbidden: Admin privileges required',
\* calls neither getUserByEmail nor setCustomUserClaims, and the step that
\* rejects it leaves the claims of every identity as they were.
C5_NonAdminRejected ==
    /\ [](\A i \in Reqs :
            (VerifiedGrantRequest(i) /\ ~CarriesAdmin(Decoded(req[i].idToken))) =>
                /\ Answered(i, 403, "Forbidden: Admin privileges required")
                /\ req[i].trace = <<"verifyIdToken", "next:verifyFirebaseToken">>
                /\ Len(req[i].settled) = 1
                /\ req[i].before = <<>>)
    /\ [][\A i \in Reqs :
            (req'[i] # req[i] /\ req'[i].route = "/api/set-admin-claim"
                /\ req'[i].settled # <<>> /\ ~CarriesAdmin(Decoded(req'[i].idToken))) =>
                store' = store]_vars

\* a non-admin asked for the admin claim for itself and was turned away
C5_Witness ==
    \E i \in Reqs :
        /\ VerifiedGrantRequest(i)
        /\ req[i].user # <<>>
        /\ req[i].user[1].uid = "u2"
        /\ ~CarriesAdmin(req[i].user)
        /\ Get(req[i].body, "emailToMakeAdmin") = EmailOf["u2"]
        /\ req[i].pc = "done"

\* C6: whether a set-admin-claim request passes requireAdmin depends on the
\* claims in its token alone, not on the provider's store: a token minted
\* before its holder was granted admin is still rejected after the grant, a
\* request passes only with a token minted when the holder was admin, and no
\* step removes or alters a token that was issued.
C6_OldTokenKeepsOutcome ==
    /\ [](\A i \in Reqs :
            VerifiedGrantRequest(i) =>
                /\ Has(req[i].trace, "next:requireAdmin") <=> CarriesAdmin(Decoded(req[i].idToken))
                /\ ~CarriesAdmin(Decoded(req[i].idToken)) =>
                       Answered(i, 403, "Forbidden: Admin privileges required"))
    /\ [](\A d \in issued : CarriesAdmin(<<d>>) => StoredAdmin(d.uid))
    /\ [][\A d \in issued : d \in issued']_vars

\* a holder granted admin is rejected with the old token while holding a new one
C6_Witness ==
    \E i \in Reqs :
        /\ Answered(i, 403, "Forbidden: Admin privileges required")
        /\ req[i].user # <<>>
        /\ StoredAdmin(req[i].user[1].uid)
        /\ \E d \in issued : d.uid = req[i].user[1].uid /\ CarriesAdmin(<<d>>)

\* C7: every grant whose provider calls succeed is answered 200 and leaves
\* the target with exactly the admin claims; a grant to a target that was
\* already granted leaves the whole claim store as it was; and between the
\* two grants no step changes the claims of a granted target.
C7_Idempotent ==
    /\ [][\A i \in Reqs, u \in Users :
            GrantStep(i, u) =>
                /\ Succeeded(i)'
                /\ store'[u] = AdminClaims
                /\ (store[u] = AdminClaims => store' = store)]_vars
    /\ [][\A u \in Users : store[u] = AdminClaims => store'[u] = AdminClaims]_vars

\* the admin claim has been granted to an identity that a request had granted before
C7_Witness ==
    \E i \in Reqs :
        /\ Succeeded(i)
        /\ req[i].route = "/api/set-admin-claim"
        /\ req[i].userToUpdate = <<"u2">>
        /\ req[i].before = <<AdminClaims>>
        /\ store["u2"] = AdminClaims

\* C8: a successful grant leaves the target with its previous claims plus
\* isAdmin = true, and leaves the claims of every other identity unchanged.
C8_OnlyIsAdminChanges ==
    [][\A i \in Reqs, u \in Users :
            GrantStep(i, u) =>
                /\ store'[u] = {p \in store[u] : p[1] # "isAdmin"} \cup {<<"isAdmin", "true">>}
                /\ \A v \in Users \ {u} : store'[v] = store[v]]_vars

\* the lookup of the target of slot i found no account
TargetNotFound(i) ==
    /\ Len(req[i].settled) = 2
    /\ req[i].settled[2] = <<"getUserByEmail", "auth/user-not-found">>

\* C9: an admin's set-admin-claim request whose target email resolves to no
\* identity is answered with a request error (4xx), not with 500, and writes
\* no claims.
C9_TargetNotFoundIsRequestError ==
    \A i \in Reqs :
        TargetNotFound(i) =>
            /\ req[i].pc = "done"
            /\ Len(req[i].res) = 1
            /\ req[i].res[1].status \in 400..499
            /\ req[i].before = <<>>

Gated(i) ==
    /\ req[i].pc # "idle"
    /\ req[i].parseError = ""
    /\ req[i].method = "POST"
    /\ req[i].route \in {"/api/secure-action", "/api/set-admin-claim"}

\* the Authorization header of slot i is missing or does not begin with 'Bearer '
HeaderMissingOrMalformed(i) ==
    req[i].authorization = <<>> \/ ~startsWith(req[i].authorization[1], Bearer)

\* the token of slot i verified
Verified(i) == req[i].settled # <<>> /\ req[i].settled[1] = <<"verifyIdToken", "ok">>

\* the error text of the response of slot i
ErrorText(i) == Get(req[i].res[1].json, "error")

\* C11: the two kinds of 403 are told apart by the message.  A request
\* answered 403 carries either the text beginning 'Forbidden:' or a text
\* beginning 'Unauthorized:'; it carries 'Forbidden:' exactly when its token
\* verified and the identity has no isAdmin === true, and 'Unauthorized:'
\* exactly when the header was missing or malformed or verification failed.
\* A request behind the gates with a bad header or a failed verification is
\* answered 403, and so is a verified non-admin on the admin route.
C11_KindsOf403 ==
    \A i \in Reqs :
        LET r == req[i]
            forbidden == ErrorText(i) = "Forbidden: Admin privileges required"
            unauthorized == ErrorText(i) \in {"Unauthorized: No token provided",
                                              "Unauthorized: Invalid token"}
        IN /\ (r.pc = "done" /\ r.res[1].status = 403) =>
                /\ Gated(i)
                /\ forbidden # unauthorized
                /\ forbidden <=> (Verified(i) /\ ~CarriesAdmin(Decoded(r.idToken)))
                /\ unauthorized <=> (HeaderMissingOrMalformed(i) \/ VerifyFailed(i))
           /\ (Gated(i) /\ (HeaderMissingOrMalformed(i) \/ VerifyFailed(i))) =>
                r.pc = "done" /\ r.res[1].status = 403
           /\ (Gated(i) /\ r.route = "/api/set-admin-claim" /\ Verified(i)
                 /\ ~CarriesAdmin(Decoded(r.idToken))) =>
                r.pc = "done" /\ r.res[1].status = 403

\* an identity whose isAdmin claim is the string 'true' has been told
\* 'Forbidden'
C11_Witness ==
    /\ Answered(1, 403, "Forbidden: Admin privileges required")
    /\ Verified(1)
    /\ <<"isAdmin", "'true'">> \in req[1].user[1].claims

\* the request in slot i is in flight or answered and went to the frontend
\* serving logic
ToFrontEnd(i) ==
    /\ req[i].pc # "idle"
    /\ req[i].parseError = ""
    /\ ~(req[i].method = "GET" /\ req[i].route = "/api/public-data")
    /\ ~(req[i].method = "POST" /\ req[i].route \in {"/api/secure-action", "/api/set-admin-claim"})

\* the directories of the admin application and of the public one
AdminContext == {"packages/snaglet-exec/dist", "packages/snaglet-exec"}
PublicContext == {"packages/snaglet-app/dist", "packages/snaglet-app"}

\* C12: the frontend context is chosen by an exact match of the hostname:
\* 'exec.localhost' gets the admin application and every other hostname
\* (also one that only contains 'exec.localhost') the public one, and this is
\* the same in every serving path: express.static and the catch-all
\* index.html in production, the Vite server in development; the file that
\* is sent comes from the chosen context.
C12_HostDispatch ==
    \A i \in Reqs :
        LET r == req[i] IN
        ToFrontEnd(i) =>
            /\ r.front # <<>>
            /\ \A k \in 1..Len(r.front) :
                  /\ (r.front[k][2] \in AdminContext) <=> (r.hostname = "exec.localhost")
                  /\ (r.front[k][2] \in PublicContext) <=> (r.hostname # "exec.localhost")
                  /\ (r.front[k][1] = "vite") <=> (NODE_ENV # "production")
            /\ (r.pc = "done" /\ r.res[1].file # <<>>) =>
                  /\ (r.res[1].file[1] \in AdminContext) <=> (r.hostname = "exec.localhost")
                  /\ (r.res[1].file[1] \in PublicContext) <=> (r.hostname # "exec.localhost")

\* in production a deep link on the admin hostname missed express.static and
\* got the index.html of the admin application
C12_Witness ==
    /\ req[1].pc = "done"
    /\ req[1].hostname = "exec.localhost"
    /\ NODE_ENV = "production"
    /\ req[1].front = <<<<"static", "packages/snaglet-exec/dist">>, <<"sendFile", "packages/snaglet-exec/dist">>>>
    /\ req[1].res[1].file = <<"packages/snaglet-exec/dist", "/index.html">>

\* the request in slot i matches a route of the API
ApiRequest(i) ==
    /\ req[i].pc # "idle"
    /\ \/ req[i].method = "GET" /\ req[i].route = "/api/public-data"
       \/ req[i].method = "POST" /\ req[i].route \in {"/api/secure-action", "/api/set-admin-claim"}

\* the request r, had it come for the hostname h
WithHost(r, h) == [r EXCEPT !.hostname = h]

\* the request r as it arrived
AsArrived(r) ==
    [Idle EXCEPT !.method = r.method, !.route = r.route, !.hostname = r.hostname,
                 !.parseError = r.parseError, !.authorization = r.authorization, !.body = r.body]

\* C13: the API does not depend on the hostname.  An API request never comes
\* to the frontend serving logic (no static lookup, no index.html, no Vite),
\* and at every point of its life the same request for any other hostname
\* would go on in the same way: the same next state of the request, hence
\* the same response, and the same write to the provider's claim store.
C13_ApiIgnoresHost ==
    \A i \in Reqs, h \in Hostnames :
        LET r == req[i]
            t == WithHost(req[i], h)
        IN ApiRequest(i) =>
            /\ r.front = <<>>
            /\ \A k \in 1..Len(r.settled) : r.settled[k][1] # "static"
            /\ (r.pc = "done") => (r.res[1].file = <<>>)
            /\ Dispatch(AsArrived(t)) = WithHost(Dispatch(AsArrived(r)), h)
            /\ (r.pc = "verifyIdToken") =>
                  \A o \in VerifyOutcomes(r.idToken) :
                      verifyFirebaseTokenResume(Settled(t, "verifyIdToken", o), o)
                        = WithHost(verifyFirebaseTokenResume(Settled(r, "verifyIdToken", o), o), h)
            /\ (r.pc = "getUserByEmail") =>
                  \A o \in LookupOutcomes(Get(r.body, "emailToMakeAdmin")) :
                      getUserByEmailResume(t, o) = WithHost(getUserByEmailResume(r, o), h)
            /\ (r.pc = "setCustomUserClaims") =>
                  \A o \in {"ok", "unavailable"} :
                      /\ setCustomUserClaimsResume(t, o) = WithHost(setCustomUserClaimsResume(r, o), h)
                      /\ ClaimsWritten(t, o) = ClaimsWritten(r, o)
            /\ (r.pc = "public_content.get") =>
                  \A o \in {"ok", "unavailable"}, docs \in Snapshots :
                      PublicDataResume(t, o, docs) = WithHost(PublicDataResume(r, o, docs), h)

\* an admin's grant sent to the admin hostname has succeeded
C13_Witness ==
    /\ Succeeded(1)
    /\ req[1].route = "/api/set-admin-claim"
    /\ req[1].hostname = "exec.localhost"
    /\ req[1].before # <<>>

\* C14: GET /api/public-data answers 200 with an array that has one element
\* per document of public_content, in order (the empty collection gives the
\* empty array); each element holds every stored field with its stored
\* value and a field 'id' that is the document's identifier, and nothing
\* else, also for a document that stores a field named 'id'; when the read
\* fails the answer is 500 with the generic message only.
C14_PublicData ==
    \A i \in Reqs :
        LET r == req[i] IN
        (r.method = "GET" /\ r.route = "/api/public-data" /\ r.settled # <<>>) =>
            /\ (r.settled[1][2] = "ok") =>
                  /\ Succeeded(i)
                  /\ r.res[1].array # <<>>
                  /\ Len(r.res[1].array[1]) = Len(r.snapshot[1])
                  /\ \A k \in 1..Len(r.snapshot[1]) :
                        LET doc == r.snapshot[1][k]
                            element == r.res[1].array[1][k]
                        IN /\ doc.data \subseteq element
                           /\ <<"id", doc.id>> \in element
                           /\ element \subseteq (doc.data \cup {<<"id", doc.id>>})
            /\ (r.settled[1][2] # "ok") =>
                  /\ Answered(i, 500, "Failed to fetch data")
                  /\ r.res[1].json = {<<"error", "Failed to fetch data">>}
                  /\ r.res[1].array = <<>>

\* the request in slot i is a POST to /api/secure-action
SecureActionRequest(i) == Gated(i) /\ req[i].route = "/api/secure-action"

\* C15: /api/secure-action asks for authentication only.  Every request to
\* it whose token verified, whatever the claims of the identity, is answered
\* 200 with a message made from the invoker's email and with yourData equal
\* to the body that was sent; it is answered 200 only when the token
\* verified; the handler calls no provider lookup and no claim write, and no
\* step of such a request changes the provider's accounts, claims or tokens.
C15_SecureActionAuthOnly ==
    /\ [](\A i \in Reqs :
            SecureActionRequest(i) =>
                /\ Verified(i) =>
                      /\ Succeeded(i)
                      /\ req[i].res[1].json =
                            {<<"message", <<"Successfully performed secure action for ",
                                            Decoded(req[i].idToken)[1].email>>>>,
                             <<"yourData", req[i].body>>}
                      /\ req[i].trace = <<"verifyIdToken", "next:verifyFirebaseToken",
                                          "handler:/api/secure-action">>
                      /\ Len(req[i].settled) = 1
                      /\ req[i].userToUpdate = <<>>
                      /\ req[i].before = <<>>
                /\ (req[i].pc = "done" /\ req[i].res[1].status = 200) => Verified(i))
    /\ [][\A i \in Reqs :
            (req'[i] # req[i] /\ req'[i].pc # "idle" /\ req'[i].route = "/api/secure-action") =>
                (store' = store /\ accounts' = accounts /\ issued' = issued)]_vars

\* an identity without the admin claim has performed the secure action with
\* a body of its own
C15_Witness ==
    /\ SecureActionRequest(1)
    /\ Succeeded(1)
    /\ ~CarriesAdmin(req[1].user)
    /\ req[1].body # {}

(* ---- checked with the calls the server waits for settling (FairSpec) ---- *)
\* C16: as long as every call the server waits for returns or fails, every
\* API request is answered, and answered once: a request has at most one
\* response, it is finished exactly when it has one, once it is answered it
\* does nothing more (no second response, no next(), no provider call) until
\* it is dropped, and it is never left waiting for nothing.  A failure that
\* no gate and no handler deals with (a body express.json cannot parse)
\* reaches the error handler, which logs it and answers 500 'Internal Server
\* Error' before any gate or handler has run.
C16_ExactlyOneResponse ==
    /\ [](\A i \in Reqs :
            /\ Len(req[i].res) <= 1
            /\ (req[i].pc = "done") <=> (Len(req[i].res) = 1)
            /\ req[i].pc \in {"idle", "done", "verifyIdToken", "getUserByEmail",
                              "setCustomUserClaims", "public_content.get", "static"}
            /\ (req[i].pc # "idle" /\ req[i].parseError # "") =>
                  /\ Answered(i, 500, "Internal Server Error")
                  /\ req[i].log = <<req[i].parseError>>
                  /\ req[i].trace = <<>>
                  /\ req[i].settled = <<>>)
    /\ [][\A i \in Reqs : (req[i].pc = "done") => (req'[i] = req[i] \/ req'[i] = Idle)]_vars
    /\ \A i \in Reqs : ApiRequest(i) ~> (req[i].pc = "done" /\ Len(req[i].res) = 1)

\* a grant whose body could not be parsed was answered by the error handler
C16_Witness ==
    /\ Answered(1, 500, "Internal Server Error")
    /\ req[1].route = "/api/set-admin-claim"
    /\ req[1].authorization # <<>>

(* ------------- checked for requests in flight together (Spec) ------------- *)
\* C17: with requests interleaved at their awaits, the identity a request
\* carries is the one its own token decodes to, attached only after that
\* token verified; it stays as it is from the moment it is attached until
\* the request is dropped; a step of one request changes nothing of another
\* request; and what a request decides and answers comes from its own
\* identity: the admin gate is passed exactly with an admin claim in the own
\* token and the secure-action message names the own email.
C17_IdentityIsRequestScoped ==
    /\ [](\A i \in Reqs :
            /\ (req[i].user # <<>>) =>
                  /\ req[i].authorization # <<>>
                  /\ req[i].authorization[1] = Bearer \o req[i].idToken
                  /\ req[i].user = Decoded(req[i].idToken)
                  /\ req[i].settled[1] = <<"verifyIdToken", "ok">>
            /\ Has(req[i].trace, "next:requireAdmin") =>
                  CarriesAdmin(Decoded(req[i].idToken))
            /\ (req[i].pc = "done" /\ req[i].route = "/api/set-admin-claim"
                  /\ req[i].user # <<>> /\ CarriesAdmin(Decoded(req[i].idToken))) =>
                  Has(req[i].trace, "next:requireAdmin")
            /\ (req[i].pc = "done" /\ Has(req[i].trace, "handler:/api/secure-action")) =>
                  Get(req[i].res[1].json, "message")[2] = Decoded(req[i].idToken)[1].email)
    /\ [][\A i \in Reqs :
            /\ (req[i].user # <<>> /\ req'[i].pc # "idle") => (req'[i].user = req[i].user)
            /\ (req'[i] # req[i]) => (\A j \in Reqs \ {i} : req'[j] = req[j])]_vars

\* two requests of two different identities carry their identities at the
\* same time
C17_Witness ==
    /\ req[1].user # <<>>
    /\ req[2].user # <<>>
    /\ req[1].user[1].uid # req[2].user[1].uid
    /\ CarriesAdmin(req[1].user) # CarriesAdmin(req[2].user)

(* ---------------- checked for one request at a time (WideSpec) ------------- *)
\* the header h has the form 'Bearer <token>' with a token that is not empty
BearerWithToken(h) == h # <<>> /\ startsWith(h[1], Bearer) /\ Len(h[1]) > Len(Bearer)

C19_TokenIsHeaderWithoutPrefix ==
    \A i \in Reqs :
        (Gated(i) /\ Has(req[i].trace, "verifyIdToken")) =>
            /\ startsWith(req[i].authorization[1], Bearer)
            /\ req[i].idToken = SubSeq(req[i].authorization[1], Len(Bearer) + 1,
                                       Len(req[i].authorization[1]))

\* C20: the admin gate lets a request through if and only if the isAdmin
\* claim of its identity is the boolean true.  An identity without the claim,
\* with isAdmin false, with the string 'true', with the number 1 or with any
\* other claim (plan, role) is answered 403 'Forbidden: Admin privileges
\* required' and its handler does not run, whatever its email and uid; and
\* the admin console shows its panel for exactly the same tokens.
C20_GateIsExactlyTrue ==
    /\ \A i \in Reqs :
          (Gated(i) /\ req[i].route = "/api/set-admin-claim" /\ Verified(i)) =>
              LET claims == Decoded(req[i].idToken)[1].claims IN
              /\ Has(req[i].trace, "next:requireAdmin") <=> (<<"isAdmin", "true">> \in claims)
              /\ Has(req[i].trace, "handler:/api/set-admin-claim") <=> (<<"isAdmin", "true">> \in claims)
              /\ (<<"isAdmin", "true">> \notin claims) =>
                    Answered(i, 403, "Forbidden: Admin privileges required")
              /\ (<<"isAdmin", "true">> \in claims) =>
                    ~(req[i].pc = "done" /\ req[i].res[1].status = 403)
    /\ \A d \in issued : handleAuthStateChange(d.claims) <=> (<<"isAdmin", "true">> \in d.claims)

\* an identity whose isAdmin claim is the number 1 has been turned away
C20_Witness ==
    /\ Answered(1, 403, "Forbidden: Admin privileges required")
    /\ Verified(1)
    /\ <<"isAdmin", "1">> \in req[1].user[1].claims

====
